---- MODULE Spec2Model ----
(***************************************************************************)
(* Model of primitives/src/traits.rs of the DAO primitives crate:          *)
(*   - ChangeMembers: the provided methods change_members,                 *)
(*     set_members_sorted, compute_members_diff_sorted, set_prime,         *)
(*     get_prime, and the required hook change_members_sorted;             *)
(*   - the unit implementations of GetCollectiveMembers and                *)
(*     GetCollectiveMembersChecked;                                        *)
(*   - EnsureOriginWithArg::ensure_origin over the required try_origin.    *)
(*                                                                         *)
(* AccountId is modelled by integers with their usual order (Ord),         *)
(* Option<T> by a sequence of length at most one (<<>> is None, <<v>> is   *)
(* Some(v)), Vec<T> and &[T] by sequences.                                 *)
(***************************************************************************)
EXTENDS Integers, Sequences, FiniteSets, TLC

VARIABLES
    \* ---- the merge walk of compute_members_diff_sorted, step by step
    new_members,    \* argument new_members
    old_members,    \* argument old_members
    old_i,          \* position of old_iter's current element (Len+1 = None)
    new_i,          \* position of new_iter's current element (Len+1 = None)
    incoming,       \* the incoming vector built so far
    outgoing,       \* the outgoing vector built so far
    iters,          \* number of loop iterations executed so far
    pc,             \* "loop" while walking, "done" after the break
    \* ---- an implementor of ChangeMembers receiving calls
    impl,           \* "default": set_prime/get_prime not overridden;
                    \* "tracker": a prime-aware implementor
    prime,          \* the implementor's stored prime, per dao_id
    last,           \* the last call made on the trait, with its arguments
    hookLog,        \* the invocations of change_members_sorted made by it
    ret,            \* the value returned by the last call
    \* ---- an implementor of EnsureOriginWithArg receiving calls
    allowed,        \* the (origin, argument) pairs its try_origin accepts
    olast,          \* the last call, with its arguments
    oret,           \* the value returned by the last call
    tries           \* the invocations of try_origin made by the last call

diffVars == <<new_members, old_members, old_i, new_i, incoming, outgoing, iters, pc>>
memberVars == <<impl, prime, last, hookLog, ret>>
originVars == <<allowed, olast, oret, tries>>
vars == <<diffVars, memberVars, originVars>>

----------------------------------------------------------------------------
(* Bounds *)

MaxId == 3          \* account ids 1..MaxId in the merge walk
MaxLen == 3         \* longest member sequence given to the merge walk
MaxAccount == 2     \* account ids 1..MaxAccount in calls on the trait
MaxMembers == 2     \* longest member sequence in calls on the trait
MaxDao == 2         \* dao ids 1..MaxDao
MaxOrigin == 2      \* origins 1..MaxOrigin
MaxArg == 2         \* arguments 1..MaxArg

----------------------------------------------------------------------------
(* Values *)

None == <<>>
Some(v) == <<v>>

SeqsUpTo(S, n) == UNION {[1..k -> S] : k \in 0..n}

\* The scenario old = [2,5,9], new = [2,7,9,11].
ExampleOld == <<2, 5, 9>>
ExampleNew == <<2, 7, 9, 11>>

WalkInputs == SeqsUpTo(1..MaxId, MaxLen) \cup {ExampleOld, ExampleNew}

----------------------------------------------------------------------------
(* ChangeMembers::compute_members_diff_sorted *)

\* The cursor value of an iterator at position i: Some(element) or None.
Cursor(s, i) == IF i <= Len(s) THEN Some(s[i]) ELSE None

(* Variants of the loop body with one arm changed, used to test that the   *)
(* properties below depend on it.                                          *)

\* The arm for equal elements advances old_iter only.
WalkStep_EqualKeepsNew(new, old, c) ==
    LET o == Cursor(old, c.old_i)
        n == Cursor(new, c.new_i)
    IN  IF o = None /\ n = None
          THEN [c EXCEPT !.done = TRUE]
        ELSE IF o # None /\ n # None /\ o[1] = n[1]
          THEN [c EXCEPT !.old_i = @ + 1]
        ELSE IF o # None /\ n # None /\ o[1] < n[1]
          THEN [c EXCEPT !.outgoing = Append(@, o[1]), !.old_i = @ + 1]
        ELSE IF o # None /\ n = None
          THEN [c EXCEPT !.outgoing = Append(@, o[1]), !.old_i = @ + 1]
        ELSE [c EXCEPT !.incoming = Append(@, n[1]), !.new_i = @ + 1]

\* The arm for an exhausted new_iter advances without pushing.
WalkStep_DropsTail(new, old, c) ==
    LET o == Cursor(old, c.old_i)
        n == Cursor(new, c.new_i)
    IN  IF o = None /\ n = None
          THEN [c EXCEPT !.done = TRUE]
        ELSE IF o # None /\ n # None /\ o[1] = n[1]
          THEN [c EXCEPT !.old_i = @ + 1, !.new_i = @ + 1]
        ELSE IF o # None /\ n # None /\ o[1] < n[1]
          THEN [c EXCEPT !.outgoing = Append(@, o[1]), !.old_i = @ + 1]
        ELSE IF o # None /\ n = None
          THEN [c EXCEPT !.old_i = @ + 1]
        ELSE [c EXCEPT !.incoming = Append(@, n[1]), !.new_i = @ + 1]

\* The arm for an exhausted new_iter pushes without advancing.
WalkStep_StuckOnTail(new, old, c) ==
    LET o == Cursor(old, c.old_i)
        n == Cursor(new, c.new_i)
    IN  IF o = None /\ n = None
          THEN [c EXCEPT !.done = TRUE]
        ELSE IF o # None /\ n # None /\ o[1] = n[1]
          THEN [c EXCEPT !.old_i = @ + 1, !.new_i = @ + 1]
        ELSE IF o # None /\ n # None /\ o[1] < n[1]
          THEN [c EXCEPT !.outgoing = Append(@, o[1]), !.old_i = @ + 1]
        ELSE IF o # None /\ n = None
          THEN [c EXCEPT !.outgoing = Append(@, o[1])]
        ELSE [c EXCEPT !.incoming = Append(@, n[1]), !.new_i = @ + 1]

\* An element equal to the last one pushed to outgoing is not pushed again.
WalkStep_Dedup(new, old, c) ==
    LET o == Cursor(old, c.old_i)
        n == Cursor(new, c.new_i)
    IN  IF o = None /\ n = None
          THEN [c EXCEPT !.done = TRUE]
        ELSE IF o # None /\ n # None /\ o[1] = n[1]
          THEN [c EXCEPT !.old_i = @ + 1, !.new_i = @ + 1]
        ELSE IF o # None /\ n # None /\ o[1] < n[1]
          THEN [c EXCEPT !.outgoing = IF @ # <<>> /\ @[Len(@)] = o[1] THEN @ ELSE Append(@, o[1]),
                         !.old_i = @ + 1]
        ELSE IF o # None /\ n = None
          THEN [c EXCEPT !.outgoing = IF @ # <<>> /\ @[Len(@)] = o[1] THEN @ ELSE Append(@, o[1]),
                         !.old_i = @ + 1]
        ELSE [c EXCEPT !.incoming = Append(@, n[1]), !.new_i = @ + 1]

\* One iteration of the loop: the match on (old_i, new_i), arms in source order.
\* c = [old_i, new_i, incoming, outgoing, done].
WalkStep(new, old, c) ==
    LET o == Cursor(old, c.old_i)
        n == Cursor(new, c.new_i)
    IN  IF o = None /\ n = None
          THEN [c EXCEPT !.done = TRUE]
        ELSE IF o # None /\ n # None /\ o[1] = n[1]
          THEN [c EXCEPT !.old_i = @ + 1, !.new_i = @ + 1]
        ELSE IF o # None /\ n # None /\ o[1] < n[1]
          THEN [c EXCEPT !.outgoing = Append(@, o[1]), !.old_i = @ + 1]
        ELSE IF o # None /\ n = None
          THEN [c EXCEPT !.outgoing = Append(@, o[1]), !.old_i = @ + 1]
        ELSE [c EXCEPT !.incoming = Append(@, n[1]), !.new_i = @ + 1]

\* The state before the loop: both iterators advanced once, empty vectors.
WalkInit == [old_i |-> 1, new_i |-> 1, incoming |-> <<>>, outgoing |-> <<>>,
             done |-> FALSE]

RECURSIVE Walk(_, _, _)
Walk(new, old, c) == IF c.done THEN c ELSE Walk(new, old, WalkStep(new, old, c))

\* Returns <<incoming, outgoing>>.
compute_members_diff_sorted(new, old) ==
    LET c == Walk(new, old, WalkInit) IN <<c.incoming, c.outgoing>>

----------------------------------------------------------------------------
(* The merge walk as a process *)

WalkState == [old_i |-> old_i, new_i |-> new_i, incoming |-> incoming,
              outgoing |-> outgoing, done |-> pc = "done"]

DiffStep ==
    /\ pc = "loop"
    /\ LET c == WalkStep(new_members, old_members, WalkState)
       IN  /\ old_i' = c.old_i
           /\ new_i' = c.new_i
           /\ incoming' = c.incoming
           /\ outgoing' = c.outgoing
           /\ pc' = IF c.done THEN "done" ELSE "loop"
    /\ iters' = iters + 1
    /\ UNCHANGED <<new_members, old_members>>

----------------------------------------------------------------------------
(* ChangeMembers: the provided methods.  Each is modelled by the sequence  *)
(* of invocations of the required method change_members_sorted that it     *)
(* makes, with the arguments it passes.                                    *)

DaoId == 1..MaxDao
AccountId == 1..MaxAccount
Members == SeqsUpTo(AccountId, MaxMembers)
\* Caller-supplied incoming / outgoing slices: empty or a single account.
Deltas == {<<>>} \cup {<<a>> : a \in AccountId}
Primes == {None} \cup {Some(a) : a \in AccountId}

\* Vec::sort on AccountId: ascending, equal elements kept.
RECURSIVE Insert(_, _)
Insert(s, x) ==
    IF s = <<>> THEN <<x>>
    ELSE IF x < Head(s) THEN <<x>> \o s
    ELSE <<Head(s)>> \o Insert(Tail(s), x)

RECURSIVE sort(_)
sort(s) == IF s = <<>> THEN <<>> ELSE Insert(sort(SubSeq(s, 1, Len(s) - 1)), s[Len(s)])

\* The required method: one invocation, with these arguments.
change_members_sorted(dao_id, inc, out, sorted_new) ==
    << [dao_id |-> dao_id, incoming |-> inc, outgoing |-> out,
        sorted_new |-> sorted_new] >>

\* Variant: the hook is invoked before and after the sort.
change_members_twice(dao_id, inc, out, new) ==
    change_members_sorted(dao_id, inc, out, new)
        \o change_members_sorted(dao_id, inc, out, sort(new))

\* Variant: new is forwarded without the sort.
change_members_unsorted(dao_id, inc, out, new) ==
    change_members_sorted(dao_id, inc, out, new)

change_members(dao_id, inc, out, new) ==
    change_members_sorted(dao_id, inc, out, sort(new))

\* Variant: an empty diff returns early, without the hook.
set_members_sorted_skip_unchanged(dao_id, new, old) ==
    LET diff == compute_members_diff_sorted(new, old)
    IN  IF diff[1] = <<>> /\ diff[2] = <<>> THEN <<>>
        ELSE change_members_sorted(dao_id, diff[1], diff[2], new)

\* Variant: the diff is taken with its arguments exchanged.
set_members_sorted_swapped(dao_id, new, old) ==
    LET diff == compute_members_diff_sorted(old, new)
    IN  change_members_sorted(dao_id, diff[1], diff[2], new)

set_members_sorted(dao_id, new, old) ==
    LET diff == compute_members_diff_sorted(new, old)
    IN  change_members_sorted(dao_id, diff[1], diff[2], new)

\* Variant: the provided set_prime stores its argument.
set_prime_stores(st, dao_id, p) == [st EXCEPT ![dao_id] = p]

\* The provided prime methods, on the implementor's storage st: set_prime
\* has an empty body, get_prime returns None.
set_prime(st, dao_id, p) == st

get_prime(st, dao_id) == None

\* impl GetCollectiveMembers for ()
Unit_get_members(dao_id) == <<>>

Unit_get_prime(dao_id) == None

----------------------------------------------------------------------------
(* A prime-aware implementor: it overrides set_prime and get_prime with a  *)
(* stored value per dao_id, and its change_members_sorted resets it.       *)

Tracker_set_prime(st, dao_id, p) == [st EXCEPT ![dao_id] = p]

Tracker_get_prime(st, dao_id) == st[dao_id]

Tracker_change_members_sorted(st, h) == [st EXCEPT ![h.dao_id] = None]

\* The body of the implementor's change_members_sorted, on its storage.
RunHook(st, h) ==
    IF impl = "tracker" THEN Tracker_change_members_sorted(st, h) ELSE st

RECURSIVE RunHooks(_, _)
RunHooks(st, hs) ==
    IF hs = <<>> THEN st ELSE RunHooks(RunHook(st, Head(hs)), Tail(hs))

SetPrimeOf(st, dao_id, p) ==
    IF impl = "tracker" THEN Tracker_set_prime(st, dao_id, p)
    ELSE set_prime(st, dao_id, p)

GetPrimeOf(st, dao_id) ==
    IF impl = "tracker" THEN Tracker_get_prime(st, dao_id)
    ELSE get_prime(st, dao_id)

----------------------------------------------------------------------------
(* Calls on an implementor of ChangeMembers *)

Idle == [op |-> "idle"]

\* The effect of a call that makes the hook invocations hs.
Notify(hs) ==
    /\ hookLog' = hs
    /\ prime' = RunHooks(prime, hs)
    /\ ret' = <<>>
    /\ UNCHANGED impl

ChangeMembers(d, inc, out, new) ==
    /\ last = Idle
    /\ last' = [op |-> "change_members", dao_id |-> d, incoming |-> inc,
                outgoing |-> out, new |-> new,
                prime_before |-> GetPrimeOf(prime, d)]
    /\ Notify(change_members(d, inc, out, new))

ChangeMembersSorted(d, inc, out, sorted_new) ==
    /\ last = Idle
    /\ last' = [op |-> "change_members_sorted", dao_id |-> d, incoming |-> inc,
                outgoing |-> out, new |-> sorted_new,
                prime_before |-> GetPrimeOf(prime, d)]
    /\ Notify(change_members_sorted(d, inc, out, sorted_new))

SetMembersSorted(d, new, old) ==
    /\ last = Idle
    /\ last' = [op |-> "set_members_sorted", dao_id |-> d, new |-> new,
                old |-> old, prime_before |-> GetPrimeOf(prime, d)]
    /\ Notify(set_members_sorted(d, new, old))

SetPrime(d, p) ==
    /\ last = Idle
    /\ last' = [op |-> "set_prime", dao_id |-> d, prime |-> p]
    /\ prime' = SetPrimeOf(prime, d, p)
    /\ hookLog' = <<>>
    /\ ret' = <<>>
    /\ UNCHANGED impl

GetPrime(d) ==
    /\ last = Idle
    /\ last' = [op |-> "get_prime", dao_id |-> d]
    /\ ret' = GetPrimeOf(prime, d)
    /\ hookLog' = <<>>
    /\ UNCHANGED <<impl, prime>>

UnitGetMembers(d) ==
    /\ last = Idle
    /\ last' = [op |-> "unit_get_members", dao_id |-> d]
    /\ ret' = Unit_get_members(d)
    /\ hookLog' = <<>>
    /\ UNCHANGED <<impl, prime>>

UnitGetPrime(d) ==
    /\ last = Idle
    /\ last' = [op |-> "unit_get_prime", dao_id |-> d]
    /\ ret' = Unit_get_prime(d)
    /\ hookLog' = <<>>
    /\ UNCHANGED <<impl, prime>>

\* The caller takes the result; the next call can be made.
Return ==
    /\ last # Idle
    /\ last' = Idle
    /\ hookLog' = <<>>
    /\ ret' = <<>>
    /\ UNCHANGED <<impl, prime>>

----------------------------------------------------------------------------
(* EnsureOriginWithArg *)

Origin == 1..MaxOrigin
Argument == 1..MaxArg

BadOrigin == "BadOrigin"

\* An implementor's try_origin: it accepts the pairs in `allowed`, and gives
\* the origin back otherwise.  Result<Success, OuterOrigin>.
try_origin(o, a) ==
    IF <<o, a>> \in allowed
    THEN [ok |-> TRUE, val |-> <<"success", o, a>>]
    ELSE [ok |-> FALSE, err |-> o]

\* Variant: a failed check is tried a second time.
ensure_origin_retry(o, a) ==
    LET r == try_origin(o, a)
    IN  IF r.ok THEN [tries |-> << <<o, a>> >>, result |-> r]
        ELSE [tries |-> << <<o, a>>, <<o, a>> >>,
              result |-> [ok |-> FALSE, err |-> BadOrigin]]

\* Self::try_origin(o, a).map_err(|_| BadOrigin), with the invocations of
\* try_origin it makes.
ensure_origin(o, a) ==
    LET r == try_origin(o, a)
    IN  [tries |-> << <<o, a>> >>,
         result |-> IF r.ok THEN r ELSE [ok |-> FALSE, err |-> BadOrigin]]

EnsureOrigin(o, a) ==
    /\ olast' = [op |-> "ensure_origin", o |-> o, a |-> a]
    /\ oret' = ensure_origin(o, a).result
    /\ tries' = ensure_origin(o, a).tries
    /\ UNCHANGED allowed

TryOrigin(o, a) ==
    /\ olast' = [op |-> "try_origin", o |-> o, a |-> a]
    /\ oret' = try_origin(o, a)
    /\ tries' = << <<o, a>> >>
    /\ UNCHANGED allowed

----------------------------------------------------------------------------
(* Specifications *)

\* The merge walk of compute_members_diff_sorted on two given slices.
DiffNext == DiffStep /\ UNCHANGED <<memberVars, originVars>>

InitDiff ==
    /\ new_members \in WalkInputs
    /\ old_members \in WalkInputs
    /\ old_i = WalkInit.old_i
    /\ new_i = WalkInit.new_i
    /\ incoming = WalkInit.incoming
    /\ outgoing = WalkInit.outgoing
    /\ iters = 0
    /\ pc = "loop"
    /\ impl = "none" /\ prime = <<>> /\ last = Idle /\ hookLog = <<>> /\ ret = <<>>
    /\ allowed = {} /\ olast = Idle /\ oret = <<>> /\ tries = <<>>

SpecDiff == InitDiff /\ [][DiffNext]_vars

\* Calls on an implementor of ChangeMembers, one at a time.
Next ==
    \/ last = Idle /\ \E d \in DaoId, inc \in Deltas, out \in Deltas, new \in Members :
          ChangeMembers(d, inc, out, new) /\ UNCHANGED <<diffVars, originVars>>
    \/ last = Idle /\ \E d \in DaoId, inc \in Deltas, out \in Deltas, new \in Members :
          ChangeMembersSorted(d, inc, out, sort(new)) /\ UNCHANGED <<diffVars, originVars>>
    \/ last = Idle /\ \E d \in DaoId, new \in Members, old \in Members :
          SetMembersSorted(d, new, old) /\ UNCHANGED <<diffVars, originVars>>
    \/ last = Idle /\ \E d \in DaoId, p \in Primes :
          SetPrime(d, p) /\ UNCHANGED <<diffVars, originVars>>
    \/ last = Idle /\ \E d \in DaoId :
          GetPrime(d) /\ UNCHANGED <<diffVars, originVars>>
    \/ last = Idle /\ \E d \in DaoId :
          UnitGetMembers(d) /\ UNCHANGED <<diffVars, originVars>>
    \/ last = Idle /\ \E d \in DaoId :
          UnitGetPrime(d) /\ UNCHANGED <<diffVars, originVars>>
    \/ Return /\ UNCHANGED <<diffVars, originVars>>

Init ==
    /\ impl \in {"default", "tracker"}
    /\ prime = [d \in DaoId |-> None]
    /\ last = Idle
    /\ hookLog = <<>>
    /\ ret = <<>>
    /\ new_members = <<>> /\ old_members = <<>> /\ old_i = 1 /\ new_i = 1
    /\ incoming = <<>> /\ outgoing = <<>> /\ iters = 0 /\ pc = "idle"
    /\ allowed = {} /\ olast = Idle /\ oret = <<>> /\ tries = <<>>

Spec == Init /\ [][Next]_vars

\* Calls on an implementor of EnsureOriginWithArg.
OriginNext ==
    \/ \E o \in Origin, a \in Argument :
          EnsureOrigin(o, a) /\ UNCHANGED <<diffVars, memberVars>>
    \/ \E o \in Origin, a \in Argument :
          TryOrigin(o, a) /\ UNCHANGED <<diffVars, memberVars>>

InitOrigin ==
    /\ allowed \in SUBSET (Origin \X Argument)
    /\ olast = Idle
    /\ oret = <<>>
    /\ tries = <<>>
    /\ new_members = <<>> /\ old_members = <<>> /\ old_i = 1 /\ new_i = 1
    /\ incoming = <<>> /\ outgoing = <<>> /\ iters = 0 /\ pc = "idle"
    /\ impl = "none" /\ prime = <<>> /\ last = Idle /\ hookLog = <<>> /\ ret = <<>>

SpecOrigin == InitOrigin /\ [][OriginNext]_vars

----------------------------------------------------------------------------
(* Properties *)

Range(s) == {s[i] : i \in DOMAIN s}
Count(s, x) == Cardinality({i \in DOMAIN s : s[i] = x})
StrictlyAscending(s) == \A i \in 1..(Len(s) - 1) : s[i] < s[i + 1]
NonDecreasing(s) == \A i \in 1..(Len(s) - 1) : s[i] <= s[i + 1]
Monus(a, b) == IF a > b THEN a - b ELSE 0
IsPermutation(s, t) ==
    /\ Len(s) = Len(t)
    /\ \A x \in Range(s) \cup Range(t) : Count(s, x) = Count(t, x)
EntryOps == {"change_members", "change_members_sorted", "set_members_sorted"}

\* C1: for strictly ascending old and new, the finished walk gives incoming
\* disjoint from old, outgoing disjoint from new, (old \ outgoing) \cup incoming
\* = new as sets, both outputs strictly ascending, incoming = new \ old and
\* outgoing = old \ new; old = [2,5,9], new = [2,7,9,11] gives [7,11] and [5].
C1_DiffOfSortedSets ==
    (pc = "done" /\ StrictlyAscending(old_members) /\ StrictlyAscending(new_members))
    => /\ Range(incoming) \cap Range(old_members) = {}
       /\ Range(outgoing) \cap Range(new_members) = {}
       /\ (Range(old_members) \ Range(outgoing)) \cup Range(incoming) = Range(new_members)
       /\ StrictlyAscending(incoming)
       /\ StrictlyAscending(outgoing)
       /\ Range(incoming) = Range(new_members) \ Range(old_members)
       /\ Range(outgoing) = Range(old_members) \ Range(new_members)
       /\ (old_members = ExampleOld /\ new_members = ExampleNew)
             => (incoming = <<7, 11>> /\ outgoing = <<5>>)

C1_Witness ==
    /\ pc = "done"
    /\ old_members = ExampleOld
    /\ new_members = ExampleNew
    /\ incoming = <<7, 11>>
    /\ outgoing = <<5>>

\* C2: every call of change_members, change_members_sorted or
\* set_members_sorted makes exactly one invocation of change_members_sorted,
\* for the dao_id of the call, also when incoming and outgoing are empty.
C2_ExactlyOneHook ==
    last.op \in EntryOps
    => /\ Len(hookLog) = 1
       /\ hookLog[1].dao_id = last.dao_id

C2_Witness ==
    /\ last.op = "set_members_sorted"
    /\ last.new = <<1, 2>>
    /\ last.old = <<1, 2>>
    /\ Len(hookLog) = 1
    /\ hookLog[1].incoming = <<>>
    /\ hookLog[1].outgoing = <<>>

\* C3: after a call of any of the three entry points for dao_id D,
\* get_prime(D) is None, whatever the prime was before the call and also when
\* the diff is empty.
C3_PrimeResetByEveryEntryPoint ==
    last.op \in EntryOps => GetPrimeOf(prime, last.dao_id) = None

C3_Witness ==
    /\ impl = "tracker"
    /\ last.op = "set_members_sorted"
    /\ last.new = <<1, 2>>
    /\ last.old = <<1, 2>>
    /\ last.prime_before = Some(1)
    /\ hookLog[1].incoming = <<>>
    /\ hookLog[1].outgoing = <<>>
    /\ GetPrimeOf(prime, last.dao_id) = None

\* C4: change_members forwards the ascending sort of new (same elements with
\* the same multiplicities), the same for every permutation of new, and
\* forwards dao_id, incoming and outgoing as given.
C4_ChangeMembersForwardsSorted ==
    last.op = "change_members"
    => /\ Len(hookLog) = 1
       /\ NonDecreasing(hookLog[1].sorted_new)
       /\ IsPermutation(hookLog[1].sorted_new, last.new)
       /\ hookLog[1].dao_id = last.dao_id
       /\ hookLog[1].incoming = last.incoming
       /\ hookLog[1].outgoing = last.outgoing
       /\ \A other \in Members :
             IsPermutation(other, last.new)
             => change_members(last.dao_id, last.incoming, last.outgoing, other)
                  = hookLog

C4_Witness ==
    /\ last.op = "change_members"
    /\ last.new = <<2, 1>>
    /\ last.incoming = <<2>>
    /\ last.outgoing = <<2>>
    /\ hookLog[1].sorted_new = <<1, 2>>
    /\ hookLog[1].incoming = <<2>>
    /\ hookLog[1].outgoing = <<2>>

\* C5: ensure_origin fails, with BadOrigin, exactly when try_origin fails on
\* the same origin and argument; when try_origin succeeds ensure_origin
\* succeeds with the same value; and it invokes try_origin exactly once.
C5_EnsureOriginFollowsTryOrigin ==
    olast.op = "ensure_origin"
    => /\ oret.ok = try_origin(olast.o, olast.a).ok
       /\ ~oret.ok => oret.err = BadOrigin
       /\ oret.ok => oret.val = try_origin(olast.o, olast.a).val
       /\ tries = << <<olast.o, olast.a>> >>

C5_Witness ==
    /\ olast.op = "ensure_origin"
    /\ <<olast.o, olast.a>> \notin allowed
    /\ \E o \in Origin : <<o, olast.a>> \in allowed
    /\ ~oret.ok
    /\ oret.err = BadOrigin

\* C6: with old empty the finished walk gives (new, []), with new empty it
\* gives ([], old), for every sequence, sorted or not.
C6_DiffAgainstEmpty ==
    pc = "done"
    => /\ old_members = <<>> => (incoming = new_members /\ outgoing = <<>>)
       /\ new_members = <<>> => (incoming = <<>> /\ outgoing = old_members)

C6_Witness ==
    /\ pc = "done"
    /\ old_members = <<>>
    /\ new_members = <<3, 1, 1>>
    /\ incoming = <<3, 1, 1>>
    /\ outgoing = <<>>

\* C7: set_members_sorted invokes change_members_sorted with the same dao_id,
\* with the incoming and outgoing that compute_members_diff_sorted gives for
\* (new_members, old_members), and with new_members as given.
C7_SetMembersSortedForwardsDiff ==
    last.op = "set_members_sorted"
    => /\ Len(hookLog) = 1
       /\ hookLog[1].dao_id = last.dao_id
       /\ hookLog[1].incoming = compute_members_diff_sorted(last.new, last.old)[1]
       /\ hookLog[1].outgoing = compute_members_diff_sorted(last.new, last.old)[2]
       /\ hookLog[1].sorted_new = last.new

C7_Witness ==
    /\ last.op = "set_members_sorted"
    /\ last.new = <<2, 1>>
    /\ last.old = <<1, 1>>
    /\ hookLog[1].sorted_new = <<2, 1>>
    /\ hookLog[1].incoming = <<2, 1>>
    /\ hookLog[1].outgoing = <<1, 1>>

\* C8: the merge walk ends for any two sequences: every iteration but the
\* breaking one advances a cursor, no cursor moves back, the walk is never
\* stuck before the break, it makes at most len(old) + len(new) advancing
\* iterations, and len(incoming) <= len(new), len(outgoing) <= len(old).
C8_WalkInv ==
    /\ pc \in {"loop", "done"}
    /\ old_i \in 1..(Len(old_members) + 1)
    /\ new_i \in 1..(Len(new_members) + 1)
    /\ iters - (IF pc = "done" THEN 1 ELSE 0) <= (old_i - 1) + (new_i - 1)
    /\ iters - (IF pc = "done" THEN 1 ELSE 0) <= Len(old_members) + Len(new_members)
    /\ Len(incoming) <= Len(new_members)
    /\ Len(outgoing) <= Len(old_members)
    /\ pc = "done" \/ ENABLED DiffStep
    /\ pc = "done" => (old_i = Len(old_members) + 1 /\ new_i = Len(new_members) + 1)

C8_WalkAdvances ==
    /\ old_i' >= old_i
    /\ new_i' >= new_i
    /\ pc' = "loop" => old_i' + new_i' > old_i + new_i

C8_WalkTerminates == []C8_WalkInv /\ [][C8_WalkAdvances]_vars

C8_Witness ==
    /\ pc = "done"
    /\ old_members = <<3, 1, 2>>
    /\ new_members = <<2, 2, 1>>
    /\ iters > Len(old_members) + 1

\* C9: for non-decreasing inputs with duplicates, incoming is the multiset
\* difference new - old and outgoing the multiset difference old - new;
\* old = [A,A,B], new = [A,B,B] gives incoming = [B], outgoing = [A].
C9_DiffOfMultisets ==
    (pc = "done" /\ NonDecreasing(old_members) /\ NonDecreasing(new_members))
    => /\ \A x \in Range(old_members) \cup Range(new_members) :
             /\ Count(incoming, x) = Monus(Count(new_members, x), Count(old_members, x))
             /\ Count(outgoing, x) = Monus(Count(old_members, x), Count(new_members, x))
       /\ Range(incoming) \subseteq Range(new_members)
       /\ Range(outgoing) \subseteq Range(old_members)
       /\ NonDecreasing(incoming)
       /\ NonDecreasing(outgoing)

C9_Witness ==
    /\ pc = "done"
    /\ old_members = <<1, 1, 2>>
    /\ new_members = <<1, 2, 2>>
    /\ incoming = <<2>>
    /\ outgoing = <<1>>
    /\ Range(incoming) \cap Range(old_members) # {}

\* C10: with the provided prime methods set_prime stores nothing and
\* get_prime is None for every dao_id in every reachable state; the unit
\* GetCollectiveMembers gives no members and no prime.
C10_DefaultPrimeIsNone ==
    /\ impl = "default"
       => /\ \A d \in DaoId : prime[d] = None /\ GetPrimeOf(prime, d) = None
          /\ last.op = "get_prime" => ret = None
    /\ last.op = "unit_get_members" => ret = <<>>
    /\ last.op = "unit_get_prime" => ret = None
    /\ \A d \in DaoId : Unit_get_members(d) = <<>> /\ Unit_get_prime(d) = None

C10_Witness ==
    /\ impl = "default"
    /\ last.op = "set_prime"
    /\ last.prime = Some(1)
    /\ GetPrimeOf(prime, last.dao_id) = None

====
